---- MODULE Spec2Model ----
(***************************************************************************)
(* Hydroelectric reservoir scheduling (task1): main_script.main builds the *)
(* hourly table, constructs a Lake, calls utils.flowOptimisation and       *)
(* aggregates the schedule by month.                                       *)
(*                                                                         *)
(* Numbers are exact integers.  A value that may be missing (pandas NaN,   *)
(* an unset Pyomo variable) is a tuple: <<x>> holds x, <<>> holds nothing. *)
(* The continuous variables q and v range over the integer grid that the   *)
(* integer data spans; d is integer in the source.                         *)
(***************************************************************************)
EXTENDS Integers, Sequences, FiniteSets, TLC

VARIABLES pc, spot_csv, inflow_csv, args, data, month_to_inflow, LakeAlpiq,
          model, monthlyAverages, output, error, last, calls, efas

\* the state of a run of task1/scripts/main_script.py
mainVars == <<pc, spot_csv, inflow_csv, args, data, month_to_inflow,
              LakeAlpiq, model, monthlyAverages, output, error>>

\* last: the last attribute access on a Lake object and its outcome;
\* calls: two invocations of flowOptimisation; efas: an EfasQuery (task2)
otherVars == <<last, calls, efas>>

vars == <<mainVars, otherVars>>

(***************************************************************************)
(* Bounds of the model                                                     *)
(***************************************************************************)
MaxT == 3
MaxSpill == 2

(***************************************************************************)
(* Program constants                                                       *)
(***************************************************************************)
\* seconds in one step: the literal 3600 of utils.py and main_script.py
SecondsPerStep == 3600
\* the index of the terminal constraint, model.v[8759] in the source: the
\* last hour of an 8760-hour year, here the last step of a 2-step year
FinalIndex == 1
\* the month whose inflow the terminal floor uses: data["Month"] == 12
December == 12

Months == {1, December}
PriceValues == {-1, 2}
InflowValues == {0, 1}

NaN == <<>>
None == <<>>
Num(x) == <<x>>
Val(x) == x[1]
IsNaN(x) == x = <<>>

Steps(T) == 0 .. (T - 1)

RECURSIVE SumOver(_, _)
SumOver(S, f) ==
    IF S = {} THEN 0
    ELSE LET x == CHOOSE y \in S : TRUE IN f[x] + SumOver(S \ {x}, f)

Max(S) == CHOOSE x \in S : \A y \in S : y <= x

(***************************************************************************)
(* Lake.py                                                                 *)
(***************************************************************************)
\* Lake.__init__: stores the six arguments, checks nothing
Lake(e, Vmin, Vmax, Qmin, Qmax, coeff) ==
    [e |-> e, Vmin |-> Vmin, _Vmax |-> Vmax, Qmin |-> Qmin, Qmax |-> Qmax,
     coeff |-> coeff]

\* Lake.Vmax property
Vmax(L) == L._Vmax

\* as V0, but the fraction is taken of the minimal volume
V0OfVmin(L) == L.coeff * L.Vmin

\* Lake.V0 property: recomputed on every access
V0(L) == L.coeff * Vmax(L)

(***************************************************************************)
(* Inputs: the two csv files and the arguments main passes to Lake         *)
(***************************************************************************)
\* rows of Spot_2023.csv: the month of the row's DateTime and its price
SpotFiles(Ts, Ms, Ps) ==
    UNION {[Steps(T) -> [Month : Ms, Price : Ps]] : T \in Ts}

\* reservoirs_monthly_mean_inflows.csv: a month has at most one row
InflowFiles(Ms, As) == UNION {[S -> As] : S \in SUBSET Ms}

WideArgs ==
    [e : {-1, 2}, Vmin : {0, SecondsPerStep}, Vmax : {0, 2 * SecondsPerStep},
     Qmin : {-1, 0, 1}, Qmax : {0, 1}, coeff : {0, 1, 2}]

NarrowArgs ==
    [e : {2}, Vmin : {0}, Vmax : {2 * SecondsPerStep}, Qmin : {-1, 0},
     Qmax : {1}, coeff : {0, 1}]

\* a table whose timestamps run forward: a block of one month, then the other
Chronological(f) ==
    \A i \in DOMAIN f : \A j \in DOMAIN f :
        (i < j /\ f[i].Month # f[j].Month) => f[i].Month = f[0].Month
                                               /\ f[j].Month # f[0].Month

WideSpot == {f \in SpotFiles(1 .. MaxT, Months, PriceValues) : Chronological(f)}
NarrowSpot == SpotFiles(1 .. MaxT, {December}, PriceValues)

Init ==
    /\ pc = "start"
    /\ \/ /\ args \in WideArgs
          /\ spot_csv \in NarrowSpot
          /\ inflow_csv \in InflowFiles(Months, {1})
             /\ DOMAIN inflow_csv = Months
       \/ /\ args \in NarrowArgs
          /\ spot_csv \in WideSpot
          /\ inflow_csv \in InflowFiles(Months, InflowValues)
    /\ data = <<>>
    /\ month_to_inflow = <<>>
    /\ LakeAlpiq = <<>>
    /\ model = <<>>
    /\ monthlyAverages = <<>>
    /\ output = {}
    /\ error = "none"
    /\ last = <<>>
    /\ calls = <<>>
    /\ efas = <<>>

(***************************************************************************)
(* main_script.main, lines 16-28: read the files, align the inflow         *)
(***************************************************************************)
\* pd.read_csv x2 and data["Month"] = data["DateTime"].dt.month
ReadCsv ==
    /\ pc = "start"
    /\ data' = [T |-> Cardinality(DOMAIN spot_csv),
                Price |-> [i \in DOMAIN spot_csv |-> spot_csv[i].Price],
                Month |-> [i \in DOMAIN spot_csv |-> spot_csv[i].Month]]
    /\ month_to_inflow' = inflow_csv
    /\ pc' = "read"
    /\ UNCHANGED otherVars
    /\ UNCHANGED <<spot_csv, inflow_csv, args, LakeAlpiq, model,
                   monthlyAverages, output, error>>

\* Series.map(dict): a key the dict lacks maps to NaN, nothing is raised
MapInflow(month, table) ==
    [i \in DOMAIN month |->
        IF month[i] \in DOMAIN table THEN Num(table[month[i]]) ELSE NaN]

\* data["Inflow"] = data["Month"].map(month_to_inflow)
Align ==
    /\ pc = "read"
    /\ data' = [T |-> data.T, Price |-> data.Price, Month |-> data.Month,
                Inflow |-> MapInflow(data.Month, month_to_inflow)]
    /\ pc' = "aligned"
    /\ UNCHANGED otherVars
    /\ UNCHANGED <<spot_csv, inflow_csv, args, month_to_inflow, LakeAlpiq,
                   model, monthlyAverages, output, error>>

\* LakeAlpiq = Lake(e=..., Vmin=..., Vmax=..., Qmin=..., Qmax=..., coeff=...)
InitLake ==
    /\ pc = "aligned"
    /\ LakeAlpiq' = Lake(args.e, args.Vmin, args.Vmax, args.Qmin, args.Qmax,
                         args.coeff)
    /\ pc' = "lake"
    /\ UNCHANGED otherVars
    /\ UNCHANGED <<spot_csv, inflow_csv, args, data, month_to_inflow, model,
                   monthlyAverages, output, error>>

(***************************************************************************)
(* utils.flowOptimisation                                                  *)
(***************************************************************************)
\* the objective expression: model.e * sum(model.q[i] * 3600 * model.P[i])
Objective(e, q, P) ==
    e * SumOver(DOMAIN q, [i \in DOMAIN q |-> Val(q[i]) * SecondsPerStep * P[i]])

\* as Balance, but the spill of the step is not subtracted
BalanceNoSpill(vPrev, qPrev, dPrev, aPrev) ==
    vPrev - qPrev * SecondsPerStep + aPrev * SecondsPerStep

\* the right-hand side of volume_condition for step i >= 1, from step i-1
Balance(vPrev, qPrev, dPrev, aPrev) ==
    vPrev - qPrev * SecondsPerStep - dPrev * SecondsPerStep
          + aPrev * SecondsPerStep

\* volume_condition(model, i): skipped for the first index, else
\* v[i] == v[i-1] - q[i-1]*3600 - d[i-1]*3600 + A[i-1]*3600
volume_condition(vi, vPrev, qPrev, dPrev, aPrev, i) ==
    IF i = 0 THEN TRUE
    ELSE vi = Balance(vPrev, qPrev, dPrev, aPrev)

\* the rows data.loc[data["Month"] == 12]
DecemberRows(D) == {i \in Steps(D.T) : D.Month[i] = December}

\* .iloc[0]: the first of those rows
FirstRow(S) == CHOOSE i \in S : \A j \in S : i <= j

\* final_volume_min = Lake.V0 - <first December inflow> * 3600
final_volume_min(L, D) ==
    LET a == D.Inflow[FirstRow(DecemberRows(D))]
    IN  IF IsNaN(a) THEN NaN ELSE Num(V0(L) - Val(a) * SecondsPerStep)

\* model.final_condition: model.v[8759] >= final_volume_min
final_condition(vFinal, floor) == vFinal >= floor

\* the model as built by lines 18-58, its variables still without a value
\* except v[0], which model.v[0].fix(Lake.V0) sets
BuildModel(L, D, floor) ==
    [N |-> Steps(D.T), e |-> L.e, P |-> D.Price, A |-> D.Inflow,
     qlb |-> L.Qmin, qub |-> L.Qmax, vlb |-> L.Vmin, vub |-> Vmax(L),
     v0 |-> V0(L), final_volume_min |-> floor,
     q |-> [i \in Steps(D.T) |-> None],
     d |-> [i \in Steps(D.T) |-> None],
     v |-> [i \in Steps(D.T) |-> IF i = 0 THEN Num(V0(L)) ELSE None],
     termination |-> "unsolved"]

\* a coefficient of a constraint is NaN: A[i-1] for i in 1..T-1, or the floor
NaNCoefficient(m) ==
    \/ IsNaN(m.final_volume_min)
    \/ \E i \in m.N : i + 1 \in m.N /\ IsNaN(m.A[i])

\* as NonNegativeIntegers, but the domain is pyo.Integers
AnyIntegers(n) == -1 .. n

\* domain=pyo.NonNegativeIntegers, up to n
NonNegativeIntegers(n) == 0 .. n

\* the bounds and the domain of a variable that is not fixed
InBounds(m, qi, di, vi, i) ==
    /\ m.qlb <= qi /\ qi <= m.qub
    /\ di \in NonNegativeIntegers(MaxSpill)
    /\ i # 0 => (m.vlb <= vi /\ vi <= m.vub)

\* The solver (cbc behind solver.solve).  FeasiblePrefixes(m, i): the values
\* <<q, d, v, z>> of the steps 0..i (step t at position t+1) that satisfy
\* every bound and every constraint over those steps; z is the sum of
\* q[t] * 3600 * P[t] over them
RECURSIVE FeasiblePrefixes(_, _)
FeasiblePrefixes(m, i) ==
    IF i = 0
    THEN {<<<<y[1]>>, <<y[2]>>, <<m.v0>>, y[1] * SecondsPerStep * m.P[0]>> :
             y \in {z \in (m.qlb .. m.qub) \X NonNegativeIntegers(MaxSpill) :
                       InBounds(m, z[1], z[2], m.v0, 0)}}
    ELSE LET Cand == {<<Append(s[1][1], s[2]), Append(s[1][2], s[3]),
                        Append(s[1][3],
                               Balance(s[1][3][i], s[1][1][i], s[1][2][i],
                                       Val(m.A[i - 1]))),
                        s[1][4] + s[2] * SecondsPerStep * m.P[i]>> :
                         s \in FeasiblePrefixes(m, i - 1) \X (m.qlb .. m.qub)
                                \X NonNegativeIntegers(MaxSpill)}
         IN  {s \in Cand :
                 /\ volume_condition(s[3][i + 1], s[3][i], s[1][i], s[2][i],
                                     Val(m.A[i - 1]), i)
                 /\ InBounds(m, s[1][i + 1], s[2][i + 1], s[3][i + 1], i)
                 /\ i = FinalIndex =>
                        final_condition(s[3][i + 1], Val(m.final_volume_min))}

Feasible(m) == FeasiblePrefixes(m, Cardinality(m.N) - 1)

\* the values of the variables, indexed by step as model.q[i], model.v[i]
Solution(m, s) ==
    [q |-> [i \in m.N |-> Num(s[1][i + 1])],
     d |-> [i \in m.N |-> Num(s[2][i + 1])],
     v |-> [i \in m.N |-> Num(s[3][i + 1])]]

\* sense=pyo.maximize: the feasible points of greatest objective value
\* model.e * sum(...)
Optimal(m, F) ==
    LET best == Max({m.e * s[4] : s \in F})
    IN  {Solution(m, s) : s \in {t \in F : m.e * t[4] >= best}}

\* what an infeasible termination leaves in the variables is not specified:
\* nothing, or the point the solver stopped at (v[0] stays fixed)
Stale(m) ==
    {[q |-> m.q, d |-> m.d, v |-> m.v]}
    \cup {[q |-> [i \in m.N |-> Num(x)], d |-> [i \in m.N |-> Num(0)],
           v |-> [i \in m.N |-> Num(m.v0)]] : x \in {m.qlb, m.qub}}

Loaded(m, s, t) == [m EXCEPT !.q = s.q, !.d = s.d, !.v = s.v, !.termination = t]

Crash(name) ==
    /\ pc' = "crashed"
    /\ error' = name

\* model = flowOptimisation(LakeAlpiq, data): the status is printed and the
\* model is returned whatever the status is
FlowOptimisation ==
    /\ pc = "lake"
    /\ IF DecemberRows(data) = {}
       THEN /\ Crash("IndexError")
            /\ UNCHANGED model
       ELSE LET m == BuildModel(LakeAlpiq, data,
                                final_volume_min(LakeAlpiq, data))
            IN  IF FinalIndex \notin m.N
                THEN /\ Crash("KeyError")
                     /\ model' = m
                ELSE IF NaNCoefficient(m)
                THEN \/ /\ Crash("ValueError")
                        /\ model' = m
                     \/ /\ model' = [m EXCEPT !.termination = "error"]
                        /\ pc' = "solved"
                        /\ UNCHANGED error
                ELSE LET F == Feasible(m)
                     IN  /\ IF F = {}
                            THEN \E s \in Stale(m) :
                                    model' = Loaded(m, s, "infeasible")
                            ELSE \E s \in Optimal(m, F) :
                                    model' = Loaded(m, s, "optimal")
                         /\ pc' = "solved"
                         /\ UNCHANGED error
    /\ UNCHANGED otherVars
    /\ UNCHANGED <<spot_csv, inflow_csv, args, data, month_to_inflow,
                   LakeAlpiq, monthlyAverages, output>>

(***************************************************************************)
(* main_script.main, lines 38-66: read the schedule out, aggregate, save   *)
(***************************************************************************)
\* as Revenue, but without the energy coefficient
RevenueNoEnergy(e, q, Price) ==
    [i \in DOMAIN q |-> Val(q[i]) * Price[i] * SecondsPerStep]

\* model.e * data["q"] * data["Price"] * 3600, row by row
Revenue(e, q, Price) ==
    [i \in DOMAIN q |-> e * Val(q[i]) * Price[i] * SecondsPerStep]

\* data["q"], data["v"] and data["Revenue [EUR/h]"]; a variable without a
\* value reads as None, and None cannot be multiplied
Extract ==
    /\ pc = "solved"
    /\ IF \E i \in model.N : model.q[i] = None
       THEN /\ data' = [T |-> data.T, Price |-> data.Price,
                        Month |-> data.Month, Inflow |-> data.Inflow,
                        q |-> model.q, v |-> model.v]
            /\ Crash("TypeError")
       ELSE /\ data' = [T |-> data.T, Price |-> data.Price,
                        Month |-> data.Month, Inflow |-> data.Inflow,
                        q |-> model.q, v |-> model.v,
                        Revenue |-> Revenue(model.e, model.q, data.Price)]
            /\ pc' = "extracted"
            /\ UNCHANGED error
    /\ UNCHANGED otherVars
    /\ UNCHANGED <<spot_csv, inflow_csv, args, month_to_inflow, LakeAlpiq,
                   model, monthlyAverages, output>>

\* Series.mean(): the sum over the count, NaN for an empty selection
Mean(S, f) == IF S = {} THEN NaN ELSE <<SumOver(S, f), Cardinality(S)>>

\* the rows of one group of data.groupby("Month")
Group(D, m) == {i \in Steps(D.T) : D.Month[i] = m}

\* group["q"] > 0
RowsON(D, G) == {i \in G : Val(D.q[i]) > 0}

\* group["q"] == 0
RowsOFF(D, G) == {i \in G : Val(D.q[i]) = 0}

\* the pd.Series the lambda builds for one group
GroupStats(D, G) ==
    [AveragePriceON |-> Mean(RowsON(D, G), D.Price),
     AveragePriceOFF |-> Mean(RowsOFF(D, G), D.Price),
     AveragePrice |-> Mean(G, D.Price),
     HoursON |-> Cardinality(RowsON(D, G)),
     HoursOFF |-> Cardinality(RowsOFF(D, G)),
     AverageRevenue |-> Mean(G, D.Revenue),
     TotalRevenue |-> SumOver(G, D.Revenue)]

\* data.groupby("Month").apply(...).reset_index(): one row per month present
MonthlyTable(D) ==
    [m \in {D.Month[i] : i \in Steps(D.T)} |-> GroupStats(D, Group(D, m))]

Aggregate ==
    /\ pc = "extracted"
    /\ monthlyAverages' = MonthlyTable(data)
    /\ pc' = "aggregated"
    /\ UNCHANGED otherVars
    /\ UNCHANGED <<spot_csv, inflow_csv, args, data, month_to_inflow,
                   LakeAlpiq, model, output, error>>

\* data.to_csv("output/out.csv"); monthlyAverages.to_csv("output/monthly.csv")
Save ==
    /\ pc = "aggregated"
    /\ output' = {"output/out.csv", "output/monthly.csv"}
    /\ pc' = "saved"
    /\ UNCHANGED otherVars
    /\ UNCHANGED <<spot_csv, inflow_csv, args, data, month_to_inflow,
                   LakeAlpiq, model, monthlyAverages, error>>

Next ==
    \/ ReadCsv
    \/ Align
    \/ InitLake
    \/ FlowOptimisation
    \/ Extract
    \/ Aggregate
    \/ Save

Spec == Init /\ [][Next]_vars

(***************************************************************************)
(* Properties                                                              *)
(***************************************************************************)
\* flowOptimisation has returned a model to main
Returned ==
    \/ pc \in {"solved", "extracted", "aggregated", "saved"}
    \/ pc = "crashed" /\ error = "TypeError"

\* ... and the solver terminated with an optimal status
ReturnedOptimal == Returned /\ model.termination = "optimal"

\* the monthly table has been computed
Reported == pc \in {"aggregated", "saved"}

\* the four conditions the specification sets on a reservoir configuration
ValidConfiguration(e, Vmin, VmaxArg, Qmin, Qmax, coeff) ==
    /\ Vmin <= VmaxArg
    /\ Qmin <= Qmax
    /\ 0 <= coeff /\ coeff <= 1
    /\ e > 0

\* main passes such a configuration to Lake
ValidArgs ==
    ValidConfiguration(args.e, args.Vmin, args.Vmax, args.Qmin, args.Qmax,
                       args.coeff)

\* ... whose flows and volumes are not negative either
PhysicalArgs == ValidArgs /\ args.Qmin >= 0 /\ args.Vmin >= 0

\* C1: in a schedule returned with an optimal status, every step t with
\* 0 < t < T has volume[t] = volume[t-1] - (release[t-1] + spill[t-1]) * 3600
\* + inflow[t-1] * 3600
C1_MassBalance ==
    ReturnedOptimal =>
        \A t \in Steps(data.T) \ {0} :
            Val(model.v[t]) =
                Val(model.v[t - 1])
                - (Val(model.q[t - 1]) + Val(model.d[t - 1])) * 3600
                + Val(data.Inflow[t - 1]) * 3600

\* C1 witness: an optimal schedule over three steps that releases and spills
\* in a step with inflow, the next volume being bound by the balance
C1_Witness ==
    /\ ReturnedOptimal
    /\ PhysicalArgs
    /\ data.T = 3
    /\ \E t \in {1, 2} :
          /\ Val(model.d[t - 1]) > 0
          /\ Val(model.q[t - 1]) > 0
          /\ Val(data.Inflow[t - 1]) > 0

\* C2: in every model flowOptimisation returns, and in the table main reads
\* out of it, volume[0] is the target fraction times the maximal volume
C2_InitialVolume ==
    /\ Returned => model.v[0] = Num(args.coeff * args.Vmax)
    /\ pc \in {"extracted", "aggregated", "saved"} =>
           data.v[0] = Num(args.coeff * args.Vmax)

\* C2 witness: a saved optimal schedule of a lake whose target volume is
\* neither zero nor its minimal volume
C2_Witness ==
    /\ pc = "saved"
    /\ PhysicalArgs
    /\ model.termination = "optimal"
    /\ args.coeff = 1
    /\ args.Vmax = 7200
    /\ data.v[0] = Num(7200)

\* C3: in a schedule returned for a configuration with Vmin <= Vmax,
\* Qmin <= Qmax, 0 <= coeff <= 1 and e > 0, every step has
\* Qmin <= release <= Qmax and Vmin <= volume <= Vmax, step 0 included
C3_Bounds ==
    (ReturnedOptimal /\ PhysicalArgs) =>
        \A t \in Steps(data.T) :
            /\ args.Qmin <= Val(model.q[t]) /\ Val(model.q[t]) <= args.Qmax
            /\ args.Vmin <= Val(model.v[t]) /\ Val(model.v[t]) <= args.Vmax

\* C4: a schedule returned with an optimal status (for a valid configuration
\* and a table without missing inflow) has
\* volume[T-1] >= target volume - inflow of the last step's month * 3600
C4_TerminalFloor ==
    (ReturnedOptimal /\ PhysicalArgs /\ ~IsNaN(data.Inflow[data.T - 1])) =>
        Val(model.v[data.T - 1]) >=
            args.coeff * args.Vmax - Val(data.Inflow[data.T - 1]) * 3600

\* C5: after a termination that is not optimal no release or volume is read
\* out of the model, no monthly statistics are computed, nothing is saved
C5_NoScheduleUnlessOptimal ==
    (Returned /\ PhysicalArgs /\ model.termination # "optimal") =>
        /\ "q" \notin DOMAIN data
        /\ "v" \notin DOMAIN data
        /\ monthlyAverages = <<>>
        /\ output = {}

\* C6: when a step's month has no row in the monthly inflow table, the run
\* stops at the alignment with MissingInflowData: no Lake is built, no model
\* is built, no solver is called
C6_MissingInflowData ==
    (/\ pc \notin {"start", "read"}
     /\ PhysicalArgs
     /\ \E i \in Steps(data.T) : data.Month[i] \notin DOMAIN month_to_inflow) =>
        /\ pc = "crashed"
        /\ error = "MissingInflowData"
        /\ model = <<>>

\* C7: a Lake that has been constructed has Vmin <= Vmax, Qmin <= Qmax,
\* 0 <= coeff <= 1 and e > 0
C7_ValidConfiguration ==
    pc \in {"lake", "solved", "extracted", "aggregated", "saved"} =>
        ValidConfiguration(LakeAlpiq.e, LakeAlpiq.Vmin, LakeAlpiq._Vmax,
                           LakeAlpiq.Qmin, LakeAlpiq.Qmax, LakeAlpiq.coeff)

\* C8: the monthly 'Total revenue' values add up to the sum over the steps
\* of e * release[t] * price[t] * 3600, which is the value of the objective
\* at the schedule
C8_TotalRevenue ==
    Reported =>
        LET months == DOMAIN monthlyAverages
            reported == SumOver(months,
                           [m \in months |-> monthlyAverages[m].TotalRevenue])
            bySteps == SumOver(Steps(data.T),
                           [t \in Steps(data.T) |->
                               args.e * Val(model.q[t]) * spot_csv[t].Price
                                      * 3600])
        IN  /\ reported = bySteps
            /\ reported = Objective(model.e, model.q, model.P)

\* C8 witness: an optimal schedule over two months, each with a revenue that
\* is not zero
C8_Witness ==
    /\ Reported
    /\ PhysicalArgs
    /\ model.termination = "optimal"
    /\ DOMAIN monthlyAverages = Months
    /\ \A m \in Months : monthlyAverages[m].TotalRevenue # 0

\* C9: for every month of the table of an optimal schedule, Hours ON plus
\* Hours OFF is the number of steps of that month
C9_HoursPartition ==
    (Reported /\ ValidArgs /\ model.termination = "optimal") =>
        \A m \in DOMAIN monthlyAverages :
            monthlyAverages[m].HoursON + monthlyAverages[m].HoursOFF =
                Cardinality({i \in Steps(data.T) : data.Month[i] = m})

\* the explicit missing value of the claim C10
AggregationGap == <<"AggregationGap">>

\* C10: a month without turbine-on steps reports 'Average price ON', and a
\* month without turbine-off steps 'Average price OFF', as an explicit
\* missing value, not as NaN
C10_AggregationGap ==
    (Reported /\ PhysicalArgs /\ model.termination = "optimal") =>
        \A m \in DOMAIN monthlyAverages :
            /\ monthlyAverages[m].HoursON = 0 =>
                   monthlyAverages[m].AveragePriceON = AggregationGap
            /\ monthlyAverages[m].HoursOFF = 0 =>
                   monthlyAverages[m].AveragePriceOFF = AggregationGap

(***************************************************************************)
(* The optimisation problem as the specification states it, solved by      *)
(* exhaustive search                                                       *)
(***************************************************************************)
\* volume[t] of a schedule with releases q and spills d: the target volume
\* at step 0, then the balance equation
RECURSIVE VolumeAt(_, _, _)
VolumeAt(q, d, t) ==
    IF t = 0 THEN args.coeff * args.Vmax
    ELSE VolumeAt(q, d, t - 1) - (q[t - 1] + d[t - 1]) * 3600
         + Val(data.Inflow[t - 1]) * 3600

\* the schedules that satisfy the bounds at every step and the terminal
\* floor at the last step, with the inflow of the last step's month
Schedules ==
    {s \in [q : [Steps(data.T) -> args.Qmin .. args.Qmax],
            d : [Steps(data.T) -> 0 .. MaxSpill]] :
        /\ \A t \in Steps(data.T) :
              /\ args.Vmin <= VolumeAt(s.q, s.d, t)
              /\ VolumeAt(s.q, s.d, t) <= args.Vmax
        /\ VolumeAt(s.q, s.d, data.T - 1) >=
              args.coeff * args.Vmax - Val(data.Inflow[data.T - 1]) * 3600}

\* the revenue of a schedule
RevenueOf(s) ==
    SumOver(Steps(data.T),
            [t \in Steps(data.T) |->
                args.e * s.q[t] * 3600 * spot_csv[t].Price])

\* C11: the revenue of a schedule returned with an optimal status (valid
\* configuration, target volume within the volume bounds, no inflow missing)
\* is the greatest revenue of the schedules found by exhaustive search
C11_BruteForce ==
    (/\ ReturnedOptimal
     /\ PhysicalArgs
     /\ args.Vmin <= args.coeff * args.Vmax
     /\ \A t \in Steps(data.T) : ~IsNaN(data.Inflow[t])) =>
        /\ Schedules # {}
        /\ Objective(model.e, model.q, model.P) =
               Max({RevenueOf(s) : s \in Schedules})

\* C17: in a schedule returned with an optimal status every spill is a
\* whole number that is not negative
C17_SpillDomain ==
    ReturnedOptimal => \A t \in Steps(data.T) : Val(model.d[t]) \in Nat

\* C17 witness: an optimal schedule of a valid configuration that spills
\* in one step and does not in another
C17_Witness ==
    /\ ReturnedOptimal
    /\ PhysicalArgs
    /\ \E t \in Steps(data.T) : Val(model.d[t]) > 0
    /\ \E t \in Steps(data.T) : Val(model.d[t]) = 0

(***************************************************************************)
(* Attribute reads and writes on a Lake object (Lake.py)                   *)
(***************************************************************************)
\* what a caller reads from and writes to the attributes of a Lake
LakeValues == {0, 1, 3}

\* the attributes __init__ stores in the object
LakeFields == {"e", "Vmin", "_Vmax", "Qmin", "Qmax", "coeff"}

\* the two properties of the class; neither has a setter
LakeProperties == {"Vmax", "V0"}

\* reading attribute n of L: a property runs its getter, anything else is
\* what the object stores
GetAttr(L, n) ==
    IF n = "Vmax" THEN Vmax(L)
    ELSE IF n = "V0" THEN V0(L)
    ELSE L[n]

\* as SetAttr, but the Vmax property has a setter that stores the value
SetAttrWithSetter(L, n, x) ==
    IF n = "V0"
    THEN [raised |-> "AttributeError", obj |-> L]
    ELSE [raised |-> "none",
          obj |-> [L EXCEPT ![IF n = "Vmax" THEN "_Vmax" ELSE n] = x]]

\* writing x to attribute n of L: a property without a setter raises
\* AttributeError and stores nothing
SetAttr(L, n, x) ==
    IF n \in LakeProperties
    THEN [raised |-> "AttributeError", obj |-> L]
    ELSE [raised |-> "none", obj |-> [L EXCEPT ![n] = x]]

\* a Lake just constructed from any six values; nothing has been accessed
InitLakeObject ==
    /\ pc = "lake"
    /\ args \in [e : {1}, Vmin : {0}, Vmax : LakeValues, Qmin : {0},
                 Qmax : {1}, coeff : LakeValues]
    /\ LakeAlpiq = Lake(args.e, args.Vmin, args.Vmax, args.Qmin, args.Qmax,
                        args.coeff)
    /\ last = [op |-> "init", name |-> "", value |-> None, raised |-> "none",
               before |-> LakeAlpiq, denied |-> FALSE]
    /\ spot_csv = <<>>
    /\ inflow_csv = <<>>
    /\ data = <<>>
    /\ month_to_inflow = <<>>
    /\ model = <<>>
    /\ monthlyAverages = <<>>
    /\ output = {}
    /\ error = "none"
    /\ calls = <<>>
    /\ efas = <<>>

LakeFrame ==
    UNCHANGED <<pc, spot_csv, inflow_csv, args, data, month_to_inflow, model,
                monthlyAverages, output, error, calls, efas>>

\* x = lake.n
ReadAttr ==
    /\ pc = "lake"
    /\ \E n \in LakeFields \cup LakeProperties :
          last' = [op |-> "get", name |-> n,
                   value |-> Num(GetAttr(LakeAlpiq, n)), raised |-> "none",
                   before |-> LakeAlpiq, denied |-> last.denied]
    /\ UNCHANGED LakeAlpiq
    /\ LakeFrame

\* lake.n = x
WriteAttr ==
    /\ pc = "lake"
    /\ \E n \in LakeFields \cup LakeProperties :
          \E x \in LakeValues :
             LET r == SetAttr(LakeAlpiq, n, x) IN
             /\ LakeAlpiq' = r.obj
             /\ last' = [op |-> "set", name |-> n, value |-> Num(x),
                         raised |-> r.raised, before |-> LakeAlpiq,
                         denied |-> last.denied \/ n = "Vmax"]
    /\ LakeFrame

NextLake ==
    \/ ReadAttr
    \/ WriteAttr

SpecLake == InitLakeObject /\ [][NextLake]_vars

\* C12: whatever has been read and written before, a read of V0 gives the
\* current coeff times the current Vmax, and an assignment to Vmax raises
\* AttributeError and leaves the object as it was
C12_TargetVolume ==
    /\ (last.op = "get" /\ last.name = "V0") =>
           /\ last.raised = "none"
           /\ Val(last.value) = LakeAlpiq.coeff * LakeAlpiq._Vmax
    /\ (last.op = "set" /\ last.name = "Vmax") =>
           /\ last.raised = "AttributeError"
           /\ LakeAlpiq = last.before

\* C12 witness: after an assignment to Vmax was attempted and coeff and the
\* stored maximal volume were both overwritten, V0 is read and differs from
\* the target volume of the constructed object
C12_Witness ==
    /\ last.op = "get"
    /\ last.name = "V0"
    /\ last.denied
    /\ LakeAlpiq.coeff # args.coeff
    /\ LakeAlpiq._Vmax # args.Vmax
    /\ Val(last.value) # args.coeff * args.Vmax

(***************************************************************************)
(* Two calls of flowOptimisation on different inputs, interleaved          *)
(***************************************************************************)
Calls == {1, 2}

\* the Lake objects and the tables (month, price and inflow columns) the
\* calls are made on: a year of FinalIndex + 1 steps; a table without a
\* December row is among them
CallLakes ==
    {Lake(2, 0, 2 * SecondsPerStep, 0, 1, c) : c \in {0, 1}}

CallTables ==
    {[T |-> FinalIndex + 1,
      Price |-> [i \in Steps(FinalIndex + 1) |-> f[i].Price],
      Month |-> [i \in Steps(FinalIndex + 1) |-> f[i].Month],
      Inflow |-> MapInflow([i \in Steps(FinalIndex + 1) |-> f[i].Month], t)] :
        f \in SpotFiles({FinalIndex + 1}, {December}, PriceValues)
              \cup [Steps(FinalIndex + 1) -> [Month : {1}, Price : {2}]],
        t \in [Months -> InflowValues]}

\* as ModelSlot, but the model is one object of the module, shared by the
\* calls
SharedSlot(i) == 1

\* model = pyo.ConcreteModel(): the model is a local of the call
ModelSlot(i) == i

\* the models a call on L and D returns when it runs alone
Alone(L, D) ==
    LET m == BuildModel(L, D, final_volume_min(L, D))
        F == Feasible(m)
    IN  IF F = {}
        THEN {Loaded(m, s, "infeasible") : s \in Stale(m)}
        ELSE {Loaded(m, s, "optimal") : s \in Optimal(m, F)}

InitTwo ==
    /\ pc = "calls"
    /\ \E L \in [Calls -> CallLakes] : \E D \in [Calls -> CallTables] :
          calls = [argLake |-> L, argData |-> D, Lake |-> L, data |-> D,
                   pc |-> [i \in Calls |-> "called"],
                   model |-> [i \in Calls |-> <<>>],
                   returned |-> [i \in Calls |-> <<>>],
                   error |-> [i \in Calls |-> "none"]]
    /\ spot_csv = <<>>
    /\ inflow_csv = <<>>
    /\ args = <<>>
    /\ data = <<>>
    /\ month_to_inflow = <<>>
    /\ LakeAlpiq = <<>>
    /\ model = <<>>
    /\ monthlyAverages = <<>>
    /\ output = {}
    /\ error = "none"
    /\ last = <<>>
    /\ efas = <<>>

\* lines 18-58 of call i: the model is built from the call's Lake and table;
\* .iloc[0] of no December row raises IndexError
Build(i) ==
    /\ pc = "calls"
    /\ calls.pc[i] = "called"
    /\ IF DecemberRows(calls.data[i]) = {}
       THEN calls' = [calls EXCEPT !.pc[i] = "crashed",
                                   !.error[i] = "IndexError"]
       ELSE calls' = [calls EXCEPT
                !.pc[i] = "built",
                !.model[ModelSlot(i)] =
                    BuildModel(calls.Lake[i], calls.data[i],
                               final_volume_min(calls.Lake[i], calls.data[i]))]
    /\ UNCHANGED <<mainVars, last, efas>>

\* lines 61-68 of call i: the solver runs on the call's model, which is
\* returned whatever the status is
Solve(i) ==
    /\ pc = "calls"
    /\ calls.pc[i] = "built"
    /\ LET m == calls.model[ModelSlot(i)]
           F == Feasible(m)
       IN  \E r \in IF F = {}
                    THEN {Loaded(m, s, "infeasible") : s \in Stale(m)}
                    ELSE {Loaded(m, s, "optimal") : s \in Optimal(m, F)} :
              calls' = [calls EXCEPT !.pc[i] = "returned",
                                     !.model[ModelSlot(i)] = r,
                                     !.returned[i] = r]
    /\ UNCHANGED <<mainVars, last, efas>>

NextTwo == \E i \in Calls : Build(i) \/ Solve(i)

SpecTwo == InitTwo /\ [][NextTwo]_vars

\* C13: in every interleaving of two calls the Lake and the table of each
\* call stay as they were passed, a call fails exactly when it would fail
\* alone, and the model a call returns is one it returns when run alone
C13_Independent ==
    \A i \in Calls :
        /\ calls.Lake[i] = calls.argLake[i]
        /\ calls.data[i] = calls.argData[i]
        /\ calls.pc[i] = "crashed" =>
               DecemberRows(calls.argData[i]) = {}
        /\ calls.pc[i] \in {"built", "returned"} =>
               DecemberRows(calls.argData[i]) # {}
        /\ calls.pc[i] = "returned" =>
               calls.returned[i] \in Alone(calls.argLake[i], calls.argData[i])

\* C13 witness: both calls have returned an optimal schedule, on different
\* Lake objects and different tables, and neither call can return what the
\* other returns
C13_Witness ==
    /\ calls.pc[1] = "returned"
    /\ calls.pc[2] = "returned"
    /\ calls.argLake[1] # calls.argLake[2]
    /\ calls.argData[1] # calls.argData[2]
    /\ calls.returned[1].termination = "optimal"
    /\ calls.returned[2].termination = "optimal"
    /\ calls.returned[1].q # calls.returned[2].q
    /\ Alone(calls.argLake[1], calls.argData[1])
          \cap Alone(calls.argLake[2], calls.argData[2]) = {}

(***************************************************************************)
(* task2: utils.CheckAllowedOptions and the EfasQuery class                *)
(***************************************************************************)
\* Python values: None, a str, a list of str, a list of numbers
PyNone == <<"None", <<>>>>
Str(s) == <<"str", <<s>>>>
List(t) == <<"list", t>>
Numbers(t) == <<"nums", t>>

IsList(x) == x[1] \in {"list", "nums"}
Elements(x) == {x[2][i] : i \in 1 .. Len(x[2])}

\* bool(x): None, "" and an empty list are false
Truthy(x) ==
    /\ x # PyNone
    /\ x # Str("")
    /\ ~(IsList(x) /\ Len(x[2]) = 0)

\* as CheckAllowedOptions, but a list passes when one of its elements is
\* allowed
CheckAnyAllowed(variable, allowed_options) ==
    IF IsList(variable) /\ Elements(variable) \cap allowed_options # {}
    THEN TRUE
    ELSE IF variable[1] = "str" /\ variable[2][1] \in allowed_options
    THEN TRUE
    ELSE FALSE

\* utils.CheckAllowedOptions: TRUE when it returns, FALSE when it raises
\* ValueError; a list that is not a subset falls through to the membership
\* test, which fails for it as it does for None
CheckAllowedOptions(variable, allowed_options) ==
    IF IsList(variable) /\ Elements(variable) \subseteq allowed_options
    THEN TRUE
    ELSE IF variable[1] = "str" /\ variable[2][1] \in allowed_options
    THEN TRUE
    ELSE FALSE

\* as Wrap, but the argument is stored as it is given
WrapNothing(x) == x

\* x if isinstance(x, list) else [x]
Wrap(x) == IF IsList(x) THEN x ELSE List(x[2])

\* the option lists of validate_parameters
Pad2(i) == IF i < 10 THEN "0" \o ToString(i) ELSE ToString(i)
Every6(a, b) == {ToString(6 * k) : k \in (a \div 6) .. (b \div 6)}
Every24(a, b) == {ToString(24 * k) : k \in (a \div 24) .. (b \div 24)}

Discharge6 == "river_discharge_in_the_last_6_hours"
Discharge24 == "river_discharge_in_the_last_24_hours"

MonthNames ==
    {"January", "February", "March", "April", "May", "June", "July", "August",
     "September", "October", "November", "December"}

\* as AllowedMonths, but the options are the month names
AllowedMonthNames == MonthNames

\* the options of the last check of month, lines 431-447
AllowedMonths == {Pad2(i) : i \in 1 .. 12}

AllowedDays == {Pad2(i) : i \in 1 .. 31}
AllowedYears == {ToString(y) : y \in 2018 .. 2024}
\* the options of line 368: the multiples of 24, and "64"
Leadtime24 == Every24(24, 360) \cup {"64"}

\* one step of validate_parameters: a call of CheckAllowedOptions that is
\* made when its enclosing condition holds, or a raise statement that is
\* reached when its condition holds
Check(line, active, variable, allowed_options) ==
    [line |-> line, active |-> active, call |-> TRUE, variable |-> variable,
     allowed |-> allowed_options,
     ok |-> CheckAllowedOptions(variable, allowed_options)]

Raise(line, reached) ==
    [line |-> line, active |-> reached, call |-> FALSE, variable |-> PyNone,
     allowed |-> {}, ok |-> FALSE]

\* validate_parameters, lines 218-224
VersionSteps(o) ==
    LET v4 == o.system_version = List(<<"version_4_0">>) IN
    <<Check(218, TRUE, o.system_version, {"operational", "version_4_0"}),
      Check(220, v4, o.variable, {Discharge6}),
      Check(221, v4, o.year, {"2023"}),
      Check(222, v4, o.month, {"September"}),
      Check(223, v4, o.day, {"19"}),
      Check(224, v4, o.time, {"12:00"})>>

\* lines 227-295
CentreSteps(o) ==
    LET dwd == o.originating_centre = Str("dwd")
        cosmo == o.originating_centre = Str("cosmo_leps") IN
    <<Check(227, TRUE, o.originating_centre, {"ecmwf", "dwd", "cosmo_leps"}),
      Check(229, dwd, o.product_type, {"high_resolution_forecast"}),
      Check(230, dwd, o.variable, {Discharge6}),
      Check(231, dwd, o.leadtime_hour, Every6(0, 168)),
      Check(266, cosmo, o.product_type, {"ensemble_perturbed_forecasts"}),
      Check(267, cosmo, o.variable, {Discharge6}),
      Check(268, cosmo, o.leadtime_hour, Every6(0, 132))>>

\* lines 298-353
ProductSteps(o) ==
    LET hr == o.product_type = List(<<"high_resolution_forecast">>) IN
    <<Check(298, TRUE, o.product_type,
            {"control_forecast", "ensemble_perturbed_forecasts",
             "high_resolution_forecast"}),
      Check(307, hr, o.variable, {Discharge6}),
      Check(308, hr, o.leadtime_hour, Every6(0, 240))>>

\* lines 356-388
VariableSteps(o) ==
    LET six == o.variable = List(<<Discharge6>>)
        day == o.variable = List(<<Discharge24>>) IN
    <<Check(356, TRUE, o.variable, {Discharge6, Discharge24}),
      Check(364, six, o.model_levels, {"surface_level"}),
      Check(366, day, o.model_levels, {"surface_level"}),
      Check(367, day, o.year, {"2018", "2019", "2020"}),
      Check(368, day, o.leadtime_hour, Leadtime24)>>

\* as LevelSteps, but model_levels 'soil_levels' does not require a
\* soil_level
LevelStepsNotRequired(o) ==
    LET given == Truthy(o.soil_level) IN
    <<Check(391, TRUE, o.model_levels, {"surface_level", "soil_levels"}),
      Raise(397, given /\ o.model_levels = Str("surface_level")),
      Check(401, given, o.soil_level, {"1", "2", "3"})>>

\* lines 391-401
LevelSteps(o) ==
    LET given == Truthy(o.soil_level) IN
    <<Check(391, TRUE, o.model_levels, {"surface_level", "soil_levels"}),
      Raise(393, o.model_levels = Str("soil_levels") /\ ~given),
      Raise(397, given /\ o.model_levels = Str("surface_level")),
      Check(401, given, o.soil_level, {"1", "2", "3"})>>

\* lines 404-555
DateSteps(o) ==
    <<Check(404, TRUE, o.year, AllowedYears),
      Check(408, o.year = List(<<"2018">>), o.month,
            {"October", "November", "December"}),
      Check(410, o.year = List(<<"2023">>), o.month,
            {"January", "February", "March", "April", "May", "June", "July",
             "August", "September"}),
      Check(425, o.year = List(<<"2024">>), o.month,
            {"May", "June", "July", "August", "September", "October"}),
      Check(431, TRUE, o.month, AllowedMonths),
      Check(483, TRUE, o.day, AllowedDays),
      Check(487, TRUE, o.time, {"00:00", "12:00"}),
      Check(490, TRUE, o.leadtime_hour, Every6(0, 360))>>

\* lines 558-569: an area that is given is a list of four numbers
AreaSteps(o) ==
    <<Raise(564, Truthy(o.area)
                 /\ ~(o.area[1] = "nums" /\ Len(o.area[2]) = 4)),
      Check(569, TRUE, o.download_format, {"unarchived", "zip"})>>

\* validate_parameters: the steps in the order of the source
validate_parameters(o) ==
    VersionSteps(o) \o CentreSteps(o) \o ProductSteps(o) \o VariableSteps(o)
    \o LevelSteps(o) \o DateSteps(o) \o AreaSteps(o)

\* the steps that run: those reached, up to and including the first that
\* raises
RECURSIVE Run(_)
Run(steps) ==
    IF steps = <<>> THEN <<>>
    ELSE IF ~Head(steps).active THEN Run(Tail(steps))
    ELSE IF ~Head(steps).ok THEN <<Head(steps)>>
    ELSE <<Head(steps)>> \o Run(Tail(steps))

Raises(trace) == trace # <<>> /\ ~trace[Len(trace)].ok

\* __init__, lines 189-208: the attributes of the object
Attributes(k) ==
    [system_version |-> Wrap(k.system_version),
     originating_centre |-> k.originating_centre,
     product_type |-> Wrap(k.product_type),
     variable |-> Wrap(k.variable),
     model_levels |-> k.model_levels,
     soil_level |-> k.soil_level,
     year |-> Wrap(k.year),
     month |-> Wrap(k.month),
     day |-> Wrap(k.day),
     time |-> Wrap(k.time),
     leadtime_hour |-> Wrap(k.leadtime_hour),
     area |-> k.area,
     data_format |-> Str("netcdf"),
     download_format |-> k.download_format]

\* EfasQuery(**k) returns an object
Accepted(k) == ~Raises(Run(validate_parameters(Attributes(k))))

\* generateQuery: the dictionary, its keys and their values
QueryKeys(o) ==
    {"system_version", "originating_centre", "product_type", "variable",
     "model_levels", "year", "month", "day", "time", "leadtime_hour",
     "download_format"}
    \cup (IF Truthy(o.soil_level) THEN {"soil_level"} ELSE {})
    \cup (IF Truthy(o.area) THEN {"area"} ELSE {})

generateQuery(o) == [key \in QueryKeys(o) |-> o[key]]

\* how many times generateQuery is called on an object
MaxQueries == 2

\* the query of task2/scripts/main_script.py
MainQuery ==
    [system_version |-> Str("operational"),
     originating_centre |-> Str("ecmwf"),
     product_type |-> List(<<"control_forecast">>),
     variable |-> List(<<Discharge24>>),
     model_levels |-> Str("surface_level"),
     year |-> Str("2020"),
     month |-> Str("05"),
     day |-> Str("30"),
     time |-> Str("00:00"),
     leadtime_hour |-> List(<<"24", "48">>),
     soil_level |-> PyNone,
     area |-> PyNone,
     download_format |-> Str("zip")]

\* the arguments EfasQuery is constructed with: the query of main_script.py
\* with some of its arguments replaced, by allowed and by other values
DateQueries ==
    {[MainQuery EXCEPT !.system_version = sv, !.variable = va, !.year = ye,
                       !.month = mo, !.day = da, !.time = ti] :
        sv \in {Str("operational"), Str("version_4_0"),
                List(<<"operational", "version_4_0">>), Str("version_5_0")},
        va \in {List(<<Discharge24>>), List(<<Discharge6>>)},
        ye \in {Str("2020"), Str("2023"), List(<<"2018">>), List(<<"2024">>),
                List(<<"2018", "2019">>), Str("2017")},
        mo \in {Str("05"), Str("May"), Str("September"), Str("October"),
                List(<<>>), List(<<"05", "06">>), Str("13")},
        da \in {Str("30"), Str("19")},
        ti \in {Str("00:00"), Str("12:00")}}

ForecastQueries ==
    {[MainQuery EXCEPT !.originating_centre = oc, !.product_type = pt,
                       !.variable = va, !.leadtime_hour = lt] :
        oc \in {Str("ecmwf"), Str("dwd"), Str("cosmo_leps"), Str("ukmo"),
                PyNone},
        pt \in {List(<<"control_forecast">>), Str("high_resolution_forecast"),
                List(<<"ensemble_perturbed_forecasts">>),
                List(<<"control_forecast", "high_resolution_forecast">>),
                Str("analysis")},
        va \in {List(<<Discharge24>>), Str(Discharge6),
                List(<<Discharge6, Discharge24>>), Str("precipitation")},
        lt \in {List(<<"24", "48">>), Str("6"), List(<<"64">>), Str("138"),
                Str("174"), Str("246"), Str("7"), List(<<>>)}}

LevelQueries ==
    {[MainQuery EXCEPT !.variable = va, !.model_levels = ml,
                       !.soil_level = sl, !.year = ye] :
        va \in {List(<<Discharge24>>), Str(Discharge6),
                List(<<Discharge6, Discharge24>>)},
        ml \in {Str("surface_level"), Str("soil_levels"),
                Str("pressure_levels")},
        sl \in {PyNone, Str("1"), List(<<"1", "2">>), Str("4"),
                List(<<"3", "4">>), Str(""), List(<<>>)},
        ye \in {Str("2020"), Str("2021")}}

AreaQueries ==
    {[MainQuery EXCEPT !.soil_level = sl, !.area = ar,
                       !.download_format = df] :
        sl \in {PyNone, Str("1")},
        ar \in {PyNone, List(<<>>), Numbers(<<72, -22, 27, 45>>),
                Numbers(<<72, -22, 27>>), List(<<"72", "-22", "27", "45">>),
                Str("europe")},
        df \in {Str("zip"), Str("unarchived"), Str("tar"), Str(""), PyNone}}

\* EfasQuery(...) is about to be called
InitEfas ==
    /\ pc = "efas"
    /\ \E k \in DateQueries \cup ForecastQueries \cup LevelQueries
                \cup AreaQueries :
          efas = [pc |-> "called", kwargs |-> k, object |-> PyNone,
                  error |-> "none", trace |-> <<>>, queries |-> <<>>]
    /\ spot_csv = <<>>
    /\ inflow_csv = <<>>
    /\ args = <<>>
    /\ data = <<>>
    /\ month_to_inflow = <<>>
    /\ LakeAlpiq = <<>>
    /\ model = <<>>
    /\ monthlyAverages = <<>>
    /\ output = {}
    /\ error = "none"
    /\ last = <<>>
    /\ calls = <<>>

\* EfasQuery.__init__: the attributes are stored and validate_parameters
\* runs; when it raises, no object is returned
Construct ==
    /\ pc = "efas"
    /\ efas.pc = "called"
    /\ LET o == Attributes(efas.kwargs)
           trace == Run(validate_parameters(o))
       IN  IF Raises(trace)
           THEN efas' = [efas EXCEPT !.pc = "raised", !.error = "ValueError",
                                     !.trace = trace]
           ELSE efas' = [efas EXCEPT !.pc = "constructed", !.object = o,
                                     !.trace = trace]
    /\ UNCHANGED <<mainVars, last, calls>>

\* query.generateQuery()
GenerateQuery ==
    /\ pc = "efas"
    /\ efas.pc = "constructed"
    /\ Len(efas.queries) < MaxQueries
    /\ efas' = [efas EXCEPT
                   !.queries = Append(@, generateQuery(efas.object))]
    /\ UNCHANGED <<mainVars, last, calls>>

NextEfas ==
    \/ Construct
    \/ GenerateQuery

SpecEfas == InitEfas /\ [][NextEfas]_vars

(***************************************************************************)
(* Properties of task2                                                     *)
(***************************************************************************)
\* a value is an element of S, or a list whose elements all belong to S
IsElement(x, S) == x[1] = "str" /\ x[2][1] \in S
IsSublist(x, S) == x[1] = "list" /\ \A i \in 1 .. Len(x[2]) : x[2][i] \in S
Within(x, S) == IsElement(x, S) \/ IsSublist(x, S)

\* something other than None, "" and [] was given
NonEmpty(x) == x \notin {PyNone, Str(""), List(<<>>)}

\* the option set of each parameter, whatever the other parameters are
OptionSets ==
    [system_version |-> {"operational", "version_4_0"},
     originating_centre |-> {"ecmwf", "dwd", "cosmo_leps"},
     product_type |-> {"control_forecast", "ensemble_perturbed_forecasts",
                       "high_resolution_forecast"},
     variable |-> {Discharge6, Discharge24},
     model_levels |-> {"surface_level", "soil_levels"},
     year |-> {"2018", "2019", "2020", "2021", "2022", "2023", "2024"},
     month |-> {"01", "02", "03", "04", "05", "06", "07", "08", "09", "10",
                "11", "12"},
     day |-> AllowedDays,
     time |-> {"00:00", "12:00"},
     leadtime_hour |-> Every6(0, 360),
     download_format |-> {"unarchived", "zip"}]

Finished == efas.pc \in {"raised", "constructed"}

\* every call of CheckAllowedOptions that validate_parameters made returned
\* exactly when its variable is an element of its options or a list of
\* elements of them, and a construction that failed raised ValueError
CheckedAsStated ==
    /\ \A i \in 1 .. Len(efas.trace) :
          efas.trace[i].call =>
             (efas.trace[i].ok <=>
                 Within(efas.trace[i].variable, efas.trace[i].allowed))
    /\ efas.pc = "raised" => efas.error = "ValueError"
    /\ efas.pc = "constructed" =>
          \A p \in DOMAIN OptionSets : Within(efas.kwargs[p], OptionSets[p])

OtherThanMonthValid(k) ==
    \E m \in MonthNames \cup OptionSets.month :
        Accepted([k EXCEPT !.month = Str(m)])

\* C15: a query whose month is a documented month name and whose other
\* parameters are valid and compatible is accepted
C15_DocumentedMonth ==
    (/\ Finished
     /\ IsElement(efas.kwargs.month, MonthNames)
     /\ OtherThanMonthValid(efas.kwargs)) => efas.pc = "constructed"

\* the other parameters are valid: the query is accepted at the surface
\* level without a soil_level
OtherThanLevelValid(k) ==
    Accepted([k EXCEPT !.model_levels = Str("surface_level"),
                       !.soil_level = PyNone])

Wrapped ==
    {"system_version", "product_type", "variable", "year", "month", "day",
     "time", "leadtime_hour"}

\* C18: in every dictionary generateQuery returned the eight wrapped
\* parameters are lists (a scalar argument as a list of that one element,
\* a list argument as it was given), soil_level and area are keys exactly
\* when something non-empty was given for them, the dictionaries of
\* successive calls are equal and the object is as it was constructed
C18_QueryShape ==
    efas.pc = "constructed" =>
        /\ efas.object = Attributes(efas.kwargs)
        /\ \A i \in 1 .. Len(efas.queries) :
              LET query == efas.queries[i] IN
              /\ \A p \in Wrapped :
                    /\ query[p][1] = "list"
                    /\ efas.kwargs[p][1] = "str" =>
                          query[p] = List(<<efas.kwargs[p][2][1]>>)
                    /\ efas.kwargs[p][1] = "list" => query[p] = efas.kwargs[p]
              /\ "soil_level" \in DOMAIN query <=>
                    NonEmpty(efas.kwargs.soil_level)
              /\ "area" \in DOMAIN query <=> NonEmpty(efas.kwargs.area)
              /\ query = efas.queries[1]

\* C18 witness: generateQuery was called twice on a query constructed from
\* scalar and list arguments, with an area and without a soil_level
C18_Witness ==
    /\ efas.pc = "constructed"
    /\ Len(efas.queries) = 2
    /\ efas.kwargs.year[1] = "str"
    /\ efas.kwargs.variable[1] = "list"
    /\ "area" \in DOMAIN efas.queries[2]
    /\ "soil_level" \notin DOMAIN efas.queries[2]

====
